---- MODULE Spec2Model ----
(***************************************************************************)
(* Model of the mock-interview application:                                *)
(*   - QuestionSection   (interview flow controller, src/unnamed/part_000) *)
(*   - RecordAnswer      (answer recorder, record-answer.tsx)              *)
(*   - FormMockInterview (intake form, form-mock-interview.tsx)            *)
(* Texts are TLA+ strings; Len, SubSeq and \o work on them character by    *)
(* character, so the string conversions of the code are computed.          *)
(***************************************************************************)
EXTENDS Integers, Sequences, FiniteSets, TLC

VARIABLES
    \* ---- QuestionSection state (part_000:15-27) and its environment
    questions,          \* the questions prop
    isPlaying,
    activeIndex,        \* 0-based, as in the code
    showQuestion,
    allAnswers,         \* QuestionSection's accumulated answers
    isCrossQuestion,
    crossQuestionText,
    tempMainAnswer,
    mounted,            \* QuestionSection is on screen
    navState,           \* state handed to navigate("/generate/feedback/demo")
    utterance,          \* window.speechSynthesis: "none" | "pending" | "speaking"
    lateEnd,            \* a cancelled utterance whose end event is still to come
    speechSupported,    \* "speechSynthesis" in window
    \* ---- RecordAnswer state (record-answer.tsx:43-66) and its environment
    userAnswer,
    recAllAnswers,      \* RecordAnswer's own allAnswers
    isAiGenerating,
    aiResult,
    open,
    loading,
    recordingTime,
    timerRef,           \* timerRef.current is an interval
    stt,                \* speech capture: "off" | "starting" | "on"
    results,            \* useSpeechToText results
    interimResult,      \* useSpeechToText interimResult
    userId,             \* useAuth().userId, "" when absent
    timers,             \* live intervals started by the mounted recorder
    zombieTimers,       \* live intervals of recorders that are unmounted
    unheard,            \* seconds of recordingTime counted without capture
    saves,              \* addDoc calls in flight
    evals,              \* chatSession.sendMessage evaluation calls in flight
    pendingSubmits,     \* setTimeout(() => onSubmit(userAnswer), 300) pending
    docs,               \* the "userAnswers" collection
    saveErrorToast,     \* the latest toast is "Error saving answer"
    \* ---- FormMockInterview state (form-mock-interview.tsx:69-72) and its
    \* environment
    initialData,        \* the initialData prop
    resume,             \* data.resume of the submission: "none" | "pdf" | "doc"
    formLoading,        \* the form's loading state
    formStep,           \* where onSubmit stands: "idle" | "upload" | "extract"
                        \*   | "ai" | "backoff" | "write"
    attempts,           \* generateQuestions' local counter
    resumeUrl,          \* onSubmit's local resumeUrl
    resumeText,         \* onSubmit's local resumeText
    generated,          \* what generateQuestions returned to onSubmit
    interviews,         \* the "interviews" collection
    formToast,          \* the last toast of the form
    formNavigated,      \* navigate("/generate") was called
    storeAtSubmit,      \* the "interviews" collection when onSubmit began
    failedStep,         \* the step whose failure onSubmit caught, or "none"
    aiLog,              \* answers to this submission's AI requests, in order
    aiReply,            \* what the pending chatSession.sendMessage of the
                        \*   form settles with
    uploads,            \* upload requests issued
    aiRequests,         \* chatSession.sendMessage calls issued by the form
    writes,             \* addDoc / updateDoc calls issued by the form
    submissions,        \* submissions that passed the identity check
    unhandledRejection  \* a promise of the form was rejected with no handler

flowVars == <<questions, isPlaying, activeIndex, showQuestion, allAnswers,
              isCrossQuestion, crossQuestionText, tempMainAnswer, mounted,
              navState, utterance, lateEnd, speechSupported>>
recVars == <<userAnswer, recAllAnswers, isAiGenerating, aiResult, open, loading,
             recordingTime, timerRef, stt, results, interimResult, timers,
             unheard>>
envVars == <<userId, zombieTimers, saves, evals, pendingSubmits, docs,
             saveErrorToast>>
formVars == <<initialData, resume, formLoading, formStep, attempts, resumeUrl,
              resumeText, generated, interviews, formToast, formNavigated,
              storeAtSubmit, failedStep, aiLog, aiReply, uploads, aiRequests,
              writes, submissions, unhandledRejection>>
vars == <<flowVars, recVars, envVars, formVars>>

----------------------------------------------------------------------------
\* Bounds of the model
MaxQuestions == 2       \* longest question list
MaxResults == 1         \* speech results delivered to one recorder
MaxTimers == 2          \* intervals one recorder may have live at once
MaxInFlight == 1        \* network calls of one kind in flight at once
SlackTime == 1          \* seconds the counter may run past MIN_RECORD_TIME
MaxWords == 3           \* words of an answer given to the cross-question generator

\* Program constants
MIN_RECORD_TIME == 30
MIN_ANSWER_LENGTH == 30

----------------------------------------------------------------------------
\* String functions of the platform, computed on the characters

RECURSIVE TrimStart(_)
TrimStart(s) ==
    IF Len(s) > 0 /\ SubSeq(s, 1, 1) = " "
    THEN TrimStart(SubSeq(s, 2, Len(s)))
    ELSE s

RECURSIVE TrimEnd(_)
TrimEnd(s) ==
    IF Len(s) > 0 /\ SubSeq(s, Len(s), Len(s)) = " "
    THEN TrimEnd(SubSeq(s, 1, Len(s) - 1))
    ELSE s

\* String.prototype.trim
Trim(s) == TrimEnd(TrimStart(s))

\* s.replace(/pat/g, "") for a literal pat
RECURSIVE RemoveAll(_, _)
RemoveAll(s, pat) ==
    IF Len(s) < Len(pat) THEN s
    ELSE IF SubSeq(s, 1, Len(pat)) = pat
         THEN RemoveAll(SubSeq(s, Len(pat) + 1, Len(s)), pat)
         ELSE SubSeq(s, 1, 1) \o RemoveAll(SubSeq(s, 2, Len(s)), pat)

\* Array.prototype.join
RECURSIVE Join(_, _)
Join(parts, sep) ==
    IF parts = <<>> THEN ""
    ELSE IF Len(parts) = 1 THEN parts[1]
    ELSE parts[1] \o sep \o Join(Tail(parts), sep)

Uppers == "ABCDEFGHIJKLMNOPQRSTUVWXYZ"
Lowers == "abcdefghijklmnopqrstuvwxyz"

\* position of character c in alphabet, 0 when absent
IndexIn(c, alphabet) ==
    LET hits == {i \in 1..Len(alphabet) : SubSeq(alphabet, i, i) = c}
    IN  IF hits = {} THEN 0 ELSE CHOOSE i \in hits : TRUE

LowerChar(c) ==
    LET i == IndexIn(c, Uppers) IN IF i = 0 THEN c ELSE SubSeq(Lowers, i, i)

UpperChar(c) ==
    LET i == IndexIn(c, Lowers) IN IF i = 0 THEN c ELSE SubSeq(Uppers, i, i)

\* String.prototype.toLowerCase
RECURSIVE ToLowerCase(_)
ToLowerCase(s) ==
    IF s = "" THEN ""
    ELSE LowerChar(SubSeq(s, 1, 1)) \o ToLowerCase(SubSeq(s, 2, Len(s)))

\* s.split(/\s+/): a leading or trailing run of blanks yields an empty piece
RECURSIVE SplitWhitespace(_)
SplitWhitespace(s) ==
    LET blanks == {i \in 1..Len(s) : SubSeq(s, i, i) = " "}
    IN  IF blanks = {} THEN <<s>>
        ELSE LET i == CHOOSE k \in blanks : \A m \in blanks : k <= m
                 rest == TrimStart(SubSeq(s, i, Len(s)))
             IN  <<SubSeq(s, 1, i - 1)>> \o SplitWhitespace(rest)

----------------------------------------------------------------------------
\* QuestionSection: cross-question generator

stopWords ==
    {"is", "am", "are", "was", "were", "the", "a", "an", "and", "or", "to",
     "of", "in", "on", "for", "with", "this", "that", "it", "as", "by", "from"}

FallbackCrossQuestion == "Can you explain that in more detail?"

\* a variant of the function below that asks about the first keyword
generateCrossQuestionFirstKeyword(answer) ==
    LET keywords == SelectSeq(SplitWhitespace(ToLowerCase(answer)),
                       LAMBDA word : Len(word) > 2 /\ word \notin stopWords)
    IN  IF answer = "" \/ keywords = <<>> THEN FallbackCrossQuestion
        ELSE "What is " \o UpperChar(SubSeq(keywords[1], 1, 1))
                 \o SubSeq(keywords[1], 2, Len(keywords[1])) \o "?"

generateCrossQuestion(answer) ==
    IF answer = "" THEN FallbackCrossQuestion
    ELSE LET words == SplitWhitespace(ToLowerCase(answer))
             keywords == SelectSeq(words,
                            LAMBDA word : Len(word) > 2 /\ word \notin stopWords)
         IN  IF keywords = <<>> THEN FallbackCrossQuestion
             ELSE LET keyword == keywords[Len(keywords)]
                      formattedKeyword ==
                          UpperChar(SubSeq(keyword, 1, 1))
                              \o SubSeq(keyword, 2, Len(keyword))
                  IN  "What is " \o formattedKeyword \o "?"

----------------------------------------------------------------------------
\* Values

NoResult == [present |-> FALSE, ratings |-> 0, feedback |-> ""]
FallbackResult ==
    [present |-> TRUE, ratings |-> 0, feedback |-> "Unable to generate feedback"]
NoNav == [done |-> FALSE, answers |-> <<>>, questions |-> <<>>]

Digits == "123456789"
QuestionAt(i) ==
    [question |-> "Question " \o SubSeq(Digits, i, i),
     answer |-> "Reference " \o SubSeq(Digits, i, i)]
QuestionList(n) == [i \in 1..n |-> QuestionAt(i)]

\* what the speech recogniser delivers as one final result
Fragment == "I am building a scalable caching layer"

\* RecordAnswer props, as QuestionSection passes them
currentQuestion ==
    IF isCrossQuestion
    THEN [question |-> crossQuestionText, answer |-> ""]
    ELSE questions[activeIndex + 1]
isLastQuestion == activeIndex = Len(questions) - 1

\* the RecordAnswer element is rendered
RecorderMounted == mounted /\ showQuestion /\ activeIndex < Len(questions)

\* a variant of the closure below that keeps the index of the first render
FlowClosureOfFirstRender ==
    [isCrossQuestion |-> isCrossQuestion, activeIndex |-> 0,
     allAnswers |-> allAnswers, tempMainAnswer |-> tempMainAnswer]

\* the values handleNextQuestion reads from the render that created it
FlowClosure ==
    [isCrossQuestion |-> isCrossQuestion, activeIndex |-> activeIndex,
     allAnswers |-> allAnswers, tempMainAnswer |-> tempMainAnswer]

----------------------------------------------------------------------------
\* RecordAnswer mount and unmount

\* The synthesiser starts a pending utterance sooner than a gesture or a
\* second of the timer takes: clicks and Tick wait for it.
Quiet == utterance # "pending"

\* seconds of the current recording during which the capture was active
\* (unheard saturates above SlackTime, where this is below MIN_RECORD_TIME)
captureSecs == recordingTime - unheard

Orphan(calls) == [i \in DOMAIN calls |-> [calls[i] EXCEPT !.alive = FALSE]]

Min(a, b) == IF a < b THEN a ELSE b

\* useState initial values; the unmount cleanup clears timerRef.current only
UnmountRecorder ==
    /\ userAnswer' = ""
    /\ recAllAnswers' = <<>>
    /\ isAiGenerating' = FALSE
    /\ aiResult' = NoResult
    /\ open' = FALSE
    /\ loading' = FALSE
    /\ recordingTime' = 0
    /\ timerRef' = FALSE
    /\ stt' = "off"
    /\ results' = <<>>
    /\ interimResult' = ""
    /\ timers' = 0
    /\ unheard' = 0
    /\ zombieTimers' =
         Min(MaxTimers, zombieTimers + timers - (IF timerRef THEN 1 ELSE 0))
    /\ saves' = Orphan(saves)
    /\ evals' = Orphan(evals)

\* the recorder follows the render of QuestionSection
RenderRecorder ==
    IF RecorderMounted /\ ~RecorderMounted'
    THEN UnmountRecorder
    ELSE UNCHANGED <<recVars, zombieTimers, saves, evals>>

----------------------------------------------------------------------------
\* QuestionSection: speech

\* speechSynthesis.cancel(): the utterance is dropped; whether the platform
\* still delivers the end event of an utterance cut while speaking is open
CancelLateEnd == IF utterance = "speaking" THEN {TRUE, lateEnd} ELSE {lateEnd}

\* speakQuestion: cancel, then hand a new utterance to the synthesiser
speakQuestion ==
    IF ~speechSupported
    THEN UNCHANGED <<utterance, lateEnd>>
    ELSE /\ utterance' = "pending"
         /\ \E le \in CancelLateEnd : lateEnd' = le

\* speech.onstart
SpeechStart ==
    /\ utterance = "pending"
    /\ utterance' = "speaking"
    /\ IF mounted
       THEN isPlaying' = TRUE /\ showQuestion' = FALSE
       ELSE UNCHANGED <<isPlaying, showQuestion>>
    /\ UNCHANGED <<questions, speechSupported, activeIndex, allAnswers, isCrossQuestion,
                   crossQuestionText, tempMainAnswer, mounted, navState, lateEnd>>
    /\ RenderRecorder
    /\ UNCHANGED <<formVars, userId, pendingSubmits, docs, saveErrorToast>>

\* speech.onend of the utterance being spoken
SpeechEnd ==
    /\ utterance = "speaking"
    /\ utterance' = "none"
    /\ IF mounted
       THEN isPlaying' = FALSE /\ showQuestion' = TRUE
       ELSE UNCHANGED <<isPlaying, showQuestion>>
    /\ UNCHANGED <<questions, speechSupported, activeIndex, allAnswers, isCrossQuestion,
                   crossQuestionText, tempMainAnswer, mounted, navState, lateEnd>>
    /\ RenderRecorder
    /\ UNCHANGED <<formVars, userId, pendingSubmits, docs, saveErrorToast>>

\* speech.onend of an utterance that was cancelled while speaking
LateSpeechEnd ==
    /\ lateEnd
    /\ lateEnd' = FALSE
    /\ IF mounted
       THEN isPlaying' = FALSE /\ showQuestion' = TRUE
       ELSE UNCHANGED <<isPlaying, showQuestion>>
    /\ UNCHANGED <<questions, speechSupported, activeIndex, allAnswers, isCrossQuestion,
                   crossQuestionText, tempMainAnswer, mounted, navState, utterance>>
    /\ RenderRecorder
    /\ UNCHANGED <<formVars, userId, pendingSubmits, docs, saveErrorToast>>

\* the Replay / Stop button
ReplayClick ==
    /\ mounted /\ activeIndex < Len(questions) /\ Quiet
    /\ ~(RecorderMounted /\ open)
    /\ IF isPlaying
       THEN /\ utterance' = "none"
            /\ \E le \in CancelLateEnd : lateEnd' = le
            /\ isPlaying' = FALSE
            /\ showQuestion' = TRUE
       ELSE /\ speakQuestion
            /\ UNCHANGED <<isPlaying, showQuestion>>
    /\ UNCHANGED <<questions, speechSupported, activeIndex, allAnswers, isCrossQuestion,
                   crossQuestionText, tempMainAnswer, mounted, navState>>
    /\ RenderRecorder
    /\ UNCHANGED <<formVars, userId, pendingSubmits, docs, saveErrorToast>>

----------------------------------------------------------------------------
\* QuestionSection: handleNextQuestion, run by the recorder's delayed onSubmit.
\* c is the closure of the render that created the handler; functional
\* updates (setActiveIndex(prev => prev + 1)) read the current state.

\* a variant of the test below that also counts the last question
MoreQuestionsOffByOne(c) == c.activeIndex < Len(questions)

\* "move to next main question or feedback" (142)
MoreQuestions(c) == c.activeIndex < Len(questions) - 1

handleNextQuestion(answer, c) ==
    LET crossQ == generateCrossQuestion(answer)
        currentAnswer ==
            [question |-> questions[c.activeIndex + 1].question,
             answer |-> c.tempMainAnswer \o " | Follow-up: " \o answer,
             correct |-> questions[c.activeIndex + 1].answer]
        updatedAnswers == Append(c.allAnswers, currentAnswer)
        advance == MoreQuestions(c)
    IN  /\ IF ~mounted
           THEN \* state setters of an unmounted component do nothing
                /\ UNCHANGED <<showQuestion, tempMainAnswer, crossQuestionText,
                               isCrossQuestion, allAnswers, activeIndex, mounted>>
                /\ navState' =
                     IF c.isCrossQuestion /\ ~advance
                     THEN [done |-> TRUE, answers |-> updatedAnswers,
                           questions |-> questions]
                     ELSE navState
           ELSE /\ showQuestion' = FALSE
                /\ IF ~c.isCrossQuestion
                   THEN /\ tempMainAnswer' = answer
                        /\ crossQuestionText' = crossQ
                        /\ isCrossQuestion' = TRUE
                        /\ UNCHANGED <<allAnswers, activeIndex, mounted, navState>>
                   ELSE /\ allAnswers' = updatedAnswers
                        /\ isCrossQuestion' = FALSE
                        /\ crossQuestionText' = ""
                        /\ tempMainAnswer' = ""
                        /\ IF advance
                           THEN /\ activeIndex' = activeIndex + 1
                                /\ UNCHANGED <<mounted, navState>>
                           ELSE /\ navState' =
                                     [done |-> TRUE, answers |-> updatedAnswers,
                                      questions |-> questions]
                                /\ mounted' = FALSE
                                /\ UNCHANGED activeIndex
        \* the auto-speak effect runs when one of its dependencies changed;
        \* the unmount cleanup cancels speech
        /\ IF mounted' /\ <<activeIndex', isCrossQuestion', crossQuestionText'>>
                            # <<activeIndex, isCrossQuestion, crossQuestionText>>
                       /\ ((isCrossQuestion' /\ crossQuestionText' # "")
                             \/ activeIndex' < Len(questions))
           THEN speakQuestion
           ELSE /\ utterance' = "none"
                /\ \E le \in CancelLateEnd : lateEnd' = le
        /\ UNCHANGED <<questions, speechSupported, isPlaying>>

\* the 300 ms timeout set by saveUserAnswer fires
SubmitFire ==
    /\ pendingSubmits # <<>>
    /\ handleNextQuestion(Head(pendingSubmits).answer, Head(pendingSubmits).closure)
    /\ pendingSubmits' = Tail(pendingSubmits)
    /\ RenderRecorder
    /\ UNCHANGED <<formVars, userId, docs, saveErrorToast>>

----------------------------------------------------------------------------
\* QuestionSection: teardown

\* a variant of the cleanup below that leaves the synthesiser alone
UnmountCleanupMissing == UNCHANGED <<utterance, lateEnd>>

\* the cleanup of the mount effect (106-110)
UnmountCleanup ==
    /\ utterance' = "none"
    /\ \E le \in CancelLateEnd : lateEnd' = le

\* the candidate leaves the interview page: QuestionSection unmounts, and
\* its recorder with it
NavigateAway ==
    /\ mounted
    /\ mounted' = FALSE
    /\ UnmountCleanup
    /\ UNCHANGED <<questions, speechSupported, isPlaying, activeIndex, showQuestion, allAnswers,
                   isCrossQuestion, crossQuestionText, tempMainAnswer, navState>>
    /\ RenderRecorder
    /\ UNCHANGED <<formVars, userId, pendingSubmits, docs, saveErrorToast>>

----------------------------------------------------------------------------
\* RecordAnswer: transcript

\* the "Combine Speech" effect: results and interim result joined and cleaned
CombineSpeech(res, interim) ==
    LET transcript == Join(res, " ")
        kept == SelectSeq(<<transcript, interim>>,
                          LAMBDA text : text # "" /\ text # "undefined")
    IN  Trim(RemoveAll(Join(kept, " "), "undefined"))

\* a final result arrives from the recogniser; the effect recomputes userAnswer
SpeechResult ==
    /\ RecorderMounted /\ stt = "on"
    /\ Len(results) < MaxResults
    /\ results' = Append(results, Fragment)
    /\ interimResult' = ""
    /\ userAnswer' = CombineSpeech(results', interimResult')
    /\ UNCHANGED <<recAllAnswers, isAiGenerating, aiResult, open, loading,
                   recordingTime, timerRef, stt, timers, unheard>>
    /\ UNCHANGED <<flowVars, envVars, formVars>>

\* the recogniser reports that capture began (isRecording becomes true)
CaptureStarted ==
    /\ RecorderMounted /\ stt = "starting"
    /\ stt' = "on"
    /\ UNCHANGED <<userAnswer, recAllAnswers, isAiGenerating, aiResult, open,
                   loading, recordingTime, timerRef, results, interimResult,
                   timers, unheard>>
    /\ UNCHANGED <<flowVars, envVars, formVars>>

\* capture is refused, or ends on its own (isRecording becomes false)
CaptureEnded ==
    /\ RecorderMounted /\ stt \in {"starting", "on"}
    /\ stt' = "off"
    /\ UNCHANGED <<userAnswer, recAllAnswers, isAiGenerating, aiResult, open,
                   loading, recordingTime, timerRef, results, interimResult,
                   timers, unheard>>
    /\ UNCHANGED <<flowVars, envVars, formVars>>

\* one second passes: every live interval of the recorder fires once, and
\* the capture, when active, was active for that one second. The 300 ms
\* submit timeout and a pending utterance never outlast a second.
Tick ==
    /\ RecorderMounted /\ timers > 0
    /\ pendingSubmits = <<>> /\ Quiet
    /\ recordingTime + timers <= MIN_RECORD_TIME + SlackTime
    /\ recordingTime' = recordingTime + timers
    /\ unheard' =
         Min(SlackTime + 1, unheard + timers - (IF stt = "on" THEN 1 ELSE 0))
    /\ UNCHANGED <<userAnswer, recAllAnswers, isAiGenerating, aiResult, open,
                   loading, timerRef, stt, results, interimResult, timers>>
    /\ UNCHANGED <<flowVars, envVars, formVars>>

----------------------------------------------------------------------------
\* RecordAnswer: recordUserAnswer (Start/Stop and Record Again buttons)

\* a variant of the checks below without the check of the transcript
RecordingValidByDurationOnly == ~(recordingTime < MIN_RECORD_TIME)

\* the two checks a stopped recording must pass
RecordingValid ==
    /\ ~(recordingTime < MIN_RECORD_TIME)
    /\ ~(Len(Trim(userAnswer)) < MIN_ANSWER_LENGTH)

recordUserAnswer ==
    /\ RecorderMounted /\ ~open /\ Quiet
    /\ IF stt = "on"
       THEN \* isRecording: stop
            /\ stt' = "off"
            /\ userAnswer' = Trim(RemoveAll(userAnswer, "undefined"))
            /\ timerRef' = FALSE
            /\ timers' = IF timerRef THEN timers - 1 ELSE timers
            /\ IF ~RecordingValid
               THEN UNCHANGED <<recAllAnswers, isAiGenerating, evals>>
               ELSE /\ recAllAnswers' = Append(recAllAnswers, userAnswer)
                    /\ IF isLastQuestion
                       THEN \* generateOverallResult up to its await
                            /\ Len(evals) < MaxInFlight
                            /\ isAiGenerating' = TRUE
                            /\ evals' = Append(evals,
                                 [answers |-> Append(recAllAnswers, userAnswer),
                                  questions |-> questions,
                                  alive |-> TRUE])
                       ELSE UNCHANGED <<isAiGenerating, evals>>
            /\ saveErrorToast' = FALSE     \* every way out of the stop shows a toast
            /\ UNCHANGED <<recordingTime, unheard>>
       ELSE \* start
            /\ timers < MaxTimers
            /\ userAnswer' = ""
            /\ recordingTime' = 0
            /\ stt' = "starting"
            /\ timerRef' = TRUE
            /\ timers' = timers + 1
            /\ unheard' = 0
            /\ UNCHANGED <<recAllAnswers, isAiGenerating, evals, saveErrorToast>>
    /\ UNCHANGED <<aiResult, open, loading, results, interimResult>>
    /\ UNCHANGED <<flowVars, formVars, userId, zombieTimers, saves, pendingSubmits,
                   docs>>

----------------------------------------------------------------------------
\* RecordAnswer: generateOverallResult after its await

\* the JSON object text of a rating (quotes left out of the model text)
EvalJson == "{ratings: 7, feedback: Good}"
EvalResponses ==
    {"~~~json " \o EvalJson \o " ~~~", EvalJson, "I cannot rate this interview"}

\* text.replace(/(json|~~~|~)/g, ""), the alternatives tried in this order.
\* A TLA+ string holds no backquote: the model texts write ~ for it.
RECURSIVE StripFences(_)
StripFences(s) ==
    IF s = "" THEN ""
    ELSE IF Len(s) >= 4 /\ SubSeq(s, 1, 4) = "json"
         THEN StripFences(SubSeq(s, 5, Len(s)))
    ELSE IF Len(s) >= 3 /\ SubSeq(s, 1, 3) = "~~~"
         THEN StripFences(SubSeq(s, 4, Len(s)))
    ELSE IF SubSeq(s, 1, 1) = "~"
         THEN StripFences(SubSeq(s, 2, Len(s)))
    ELSE SubSeq(s, 1, 1) \o StripFences(SubSeq(s, 2, Len(s)))

\* JSON.parse on the texts the AI service of the model returns
ParseEval(text) ==
    IF text = EvalJson
    THEN [ok |-> TRUE,
          value |-> [present |-> TRUE, ratings |-> 7, feedback |-> "Good"]]
    ELSE [ok |-> FALSE, value |-> NoResult]

\* a variant of the function below whose catch block sets no result
EvalOutcomeWithoutFallback(outcome) ==
    IF outcome = "error" THEN NoResult
    ELSE ParseEval(Trim(StripFences(outcome))).value

\* what generateOverallResult returns; outcome "error": sendMessage rejects,
\* otherwise outcome is the text of the response
EvalOutcome(outcome) ==
    IF outcome = "error" THEN FallbackResult
    ELSE LET parsed == ParseEval(Trim(StripFences(outcome)))
         IN  IF parsed.ok THEN parsed.value ELSE FallbackResult

\* the evaluation failed: the request was rejected or its text does not parse
EvalFailed(outcome) ==
    outcome = "error" \/ ~ParseEval(Trim(StripFences(outcome))).ok

\* sendMessage settles with outcome: try, catch and finally of
\* generateOverallResult; the setters of an unmounted recorder do nothing
EvalSettle(outcome) ==
    /\ evals # <<>>
    /\ evals' = Tail(evals)
    /\ IF Head(evals).alive
       THEN /\ isAiGenerating' = FALSE
            /\ aiResult' = EvalOutcome(outcome)
       ELSE UNCHANGED <<isAiGenerating, aiResult>>
    /\ saveErrorToast' = (saveErrorToast /\ ~EvalFailed(outcome))
    /\ UNCHANGED <<userAnswer, recAllAnswers, open, loading, recordingTime,
                   timerRef, stt, results, interimResult, timers, unheard>>
    /\ UNCHANGED <<flowVars, formVars, userId, zombieTimers, saves,
                   pendingSubmits, docs>>

EvalResolve == \E outcome \in EvalResponses \cup {"error"} : EvalSettle(outcome)

----------------------------------------------------------------------------
\* RecordAnswer: Save Result button, SaveModal, saveUserAnswer

\* a variant of the prop below that tests the duration only
SaveDisabledByDurationOnly == recordingTime < MIN_RECORD_TIME

\* the disabled prop of the Save Result button
SaveDisabled ==
    recordingTime < MIN_RECORD_TIME \/ (isLastQuestion /\ ~aiResult.present)

\* onClick={() => setOpen(true)}
OpenModal ==
    /\ RecorderMounted /\ ~open /\ Quiet
    /\ ~SaveDisabled
    /\ open' = TRUE
    /\ UNCHANGED <<userAnswer, recAllAnswers, isAiGenerating, aiResult, loading,
                   recordingTime, timerRef, stt, results, interimResult, timers,
                   unheard>>
    /\ UNCHANGED <<flowVars, envVars, formVars>>

\* onClose={() => setOpen(false)}; the modal buttons are disabled while loading
CloseModal ==
    /\ RecorderMounted /\ open /\ ~loading /\ Quiet
    /\ open' = FALSE
    /\ UNCHANGED <<userAnswer, recAllAnswers, isAiGenerating, aiResult, loading,
                   recordingTime, timerRef, stt, results, interimResult, timers,
                   unheard>>
    /\ UNCHANGED <<flowVars, envVars, formVars>>

\* the document handed to addDoc
AnswerDoc ==
    [question |-> currentQuestion.question,
     correct_ans |-> currentQuestion.answer,
     user_ans |-> userAnswer,
     overall_feedback |-> IF aiResult.present THEN aiResult.feedback ELSE "",
     overall_rating |-> IF aiResult.present THEN aiResult.ratings ELSE 0,
     userId |-> userId]

\* the guard at the top of saveUserAnswer
SaveRejected == recordingTime < MIN_RECORD_TIME

\* onConfirm={saveUserAnswer}, up to the await of addDoc. The call in flight
\* keeps the document, the closure of the render, and what the recording was
\* when it was taken (heard: not sent, kept for the properties).
saveUserAnswer ==
    /\ RecorderMounted /\ open /\ ~loading /\ Quiet
    /\ IF SaveRejected
       THEN /\ saveErrorToast' = FALSE
            /\ UNCHANGED <<loading, saves>>
       ELSE /\ Len(saves) < MaxInFlight
            /\ loading' = TRUE
            /\ UNCHANGED saveErrorToast
            /\ saves' = Append(saves,
                 [doc |-> AnswerDoc, answer |-> userAnswer,
                  closure |-> FlowClosure, alive |-> TRUE,
                  heard |-> captureSecs])
    /\ UNCHANGED <<userAnswer, recAllAnswers, isAiGenerating, aiResult, open,
                   recordingTime, timerRef, stt, results, interimResult, timers,
                   unheard>>
    /\ UNCHANGED <<flowVars, formVars, userId, zombieTimers, evals, pendingSubmits, docs>>

\* addDoc resolves: the document is stored, state is cleared, onSubmit is scheduled
SaveSucceeds ==
    /\ saves # <<>>
    /\ LET call == Head(saves)
       IN  /\ saves' = Tail(saves)
           /\ docs' = Append(docs, call.doc)
           /\ saveErrorToast' = FALSE
           /\ pendingSubmits' = Append(pendingSubmits,
                 [answer |-> call.answer, closure |-> call.closure])
           /\ IF call.alive
              THEN /\ userAnswer' = ""
                   /\ recordingTime' = 0
                   /\ unheard' = 0
                   /\ stt' = "off"
                   /\ open' = FALSE
                   /\ loading' = FALSE
              ELSE UNCHANGED <<userAnswer, recordingTime, unheard, stt, open,
                               loading>>
    /\ UNCHANGED <<recAllAnswers, isAiGenerating, aiResult, timerRef, results,
                   interimResult, timers>>
    /\ UNCHANGED <<flowVars, formVars, userId, zombieTimers, evals>>

\* a variant of the action below whose catch block clears the recording as
\* the success path does
SaveFailsAndClears ==
    /\ saves # <<>>
    /\ saves' = Tail(saves)
    /\ IF Head(saves).alive
       THEN /\ loading' = FALSE
            /\ userAnswer' = ""
            /\ recordingTime' = 0
            /\ unheard' = 0
       ELSE UNCHANGED <<loading, userAnswer, recordingTime, unheard>>
    /\ saveErrorToast' = TRUE
    /\ UNCHANGED <<recAllAnswers, isAiGenerating, aiResult, open, timerRef, stt,
                   results, interimResult, timers>>
    /\ UNCHANGED <<flowVars, formVars, userId, zombieTimers, evals, pendingSubmits, docs>>

\* a variant of the action below whose catch block also schedules onSubmit
SaveFailsAndSubmits ==
    /\ saves # <<>>
    /\ saves' = Tail(saves)
    /\ IF Head(saves).alive THEN loading' = FALSE ELSE UNCHANGED loading
    /\ saveErrorToast' = TRUE
    /\ pendingSubmits' = Append(pendingSubmits,
          [answer |-> Head(saves).answer, closure |-> Head(saves).closure])
    /\ UNCHANGED <<userAnswer, recAllAnswers, isAiGenerating, aiResult, open,
                   recordingTime, timerRef, stt, results, interimResult, timers,
                   unheard>>
    /\ UNCHANGED <<flowVars, formVars, userId, zombieTimers, evals, docs>>

\* addDoc rejects: only the loading flag changes
SaveFails ==
    /\ saves # <<>>
    /\ saves' = Tail(saves)
    /\ IF Head(saves).alive THEN loading' = FALSE ELSE UNCHANGED loading
    /\ saveErrorToast' = TRUE
    /\ UNCHANGED <<userAnswer, recAllAnswers, isAiGenerating, aiResult, open,
                   recordingTime, timerRef, stt, results, interimResult, timers,
                   unheard>>
    /\ UNCHANGED <<flowVars, formVars, userId, zombieTimers, evals, pendingSubmits, docs>>

----------------------------------------------------------------------------
\* FormMockInterview: the intake form (form-mock-interview.tsx)

\* Bound of the form model
MaxSubmissions == 2     \* submissions of one visit to the form

\* Program constant
maxAttempts == 3

Max(a, b) == IF a > b THEN a ELSE b

\* String.prototype.indexOf / lastIndexOf / includes / slice, 0-based as in
\* the code
Occurrences(s, pat) ==
    {i \in 0..(Len(s) - Len(pat)) : SubSeq(s, i + 1, i + Len(pat)) = pat}

IndexOf(s, pat) ==
    LET occ == Occurrences(s, pat)
    IN IF occ = {} THEN -1 ELSE CHOOSE i \in occ : \A j \in occ : i <= j

LastIndexOf(s, pat) ==
    LET occ == Occurrences(s, pat)
    IN IF occ = {} THEN -1 ELSE CHOOSE i \in occ : \A j \in occ : i >= j

Includes(s, pat) == IndexOf(s, pat) # -1

Slice(s, from, to) ==
    LET n == Len(s)
        a == IF from < 0 THEN Max(n + from, 0) ELSE Min(from, n)
        b == IF to < 0 THEN Max(n + to, 0) ELSE Min(to, n)
    IN IF a >= b THEN "" ELSE SubSeq(s, a + 1, b)

\* JSON.parse on the texts of the model: an array of objects, each object
\* written {...} with no bracket or brace inside; the model texts write the
\* keys and the values without quotation marks
JsonFailure == [ok |-> FALSE, value |-> <<>>]

RECURSIVE ParseItems(_)
ParseItems(t) ==
    LET close == IndexOf(t, "}")
    IN IF Len(t) = 0 \/ Slice(t, 0, 1) # "{" \/ close = -1
          \/ Includes(Slice(t, 1, close), "{")
          \/ Includes(Slice(t, 1, close), "[")
          \/ Includes(Slice(t, 1, close), "]")
       THEN JsonFailure
       ELSE LET item == Slice(t, 0, close + 1)
                rest == Trim(Slice(t, close + 1, Len(t)))
            IN IF rest = "" THEN [ok |-> TRUE, value |-> <<item>>]
               ELSE IF Slice(rest, 0, 1) # "," THEN JsonFailure
               ELSE LET more == ParseItems(Trim(Slice(rest, 1, Len(rest))))
                    IN IF more.ok
                       THEN [ok |-> TRUE, value |-> <<item>> \o more.value]
                       ELSE JsonFailure

JsonParse(s) ==
    LET t == Trim(s)
    IN IF Len(t) < 2 \/ Slice(t, 0, 1) # "[" \/ Slice(t, -1, Len(t)) # "]"
       THEN JsonFailure
       ELSE LET inner == Trim(Slice(t, 1, Len(t) - 1))
            IN IF inner = "" THEN [ok |-> TRUE, value |-> <<>>]
               ELSE ParseItems(inner)

\* The message of the SyntaxError JSON.parse throws is the engine's choice:
\* some engines name only the position, some quote the text they were given
\* (all of a short text, a stretch around the position of a long one)
JsonErrorMessages(s) ==
    IF s = "" THEN {"Unexpected end of JSON input"}
    ELSE {"JSON.parse: unexpected character at line 1 column 1",
          "Unexpected token, " \o s \o " is not valid JSON"}

\* a variant of the function below that parses the whole text
cleanAiResponseWholeText(text) ==
    IF JsonParse(text).ok
    THEN {[kind |-> "return", isError |-> FALSE, message |-> "",
           value |-> JsonParse(text).value]}
    ELSE {[kind |-> "throw", isError |-> TRUE, message |-> m,
           value |-> <<>>] : m \in JsonErrorMessages(text)}

\* cleanAiResponse (104-108): its returns and its throws
cleanAiResponse(text) ==
    LET start == IndexOf(text, "[")
        end == LastIndexOf(text, "]")
        sliced == Slice(text, start, end + 1)
        parsed == JsonParse(sliced)
    IN IF parsed.ok
       THEN {[kind |-> "return", isError |-> FALSE, message |-> "",
              value |-> parsed.value]}
       ELSE {[kind |-> "throw", isError |-> TRUE, message |-> m,
              value |-> <<>>] : m \in JsonErrorMessages(sliced)}

\* What chatSession.sendMessage may answer
Unavailable ==
    [kind |-> "reject", isError |-> TRUE,
     text |-> "[503 Service Unavailable] The model is overloaded"]
BadRequest ==
    [kind |-> "reject", isError |-> TRUE,
     text |-> "[400 Bad Request] API key not valid"]
Aborted == [kind |-> "reject", isError |-> FALSE, text |-> "aborted"]

AiText(t) == [kind |-> "text", isError |-> FALSE, text |-> t]
NoReply == [kind |-> "none", isError |-> FALSE, text |-> ""]

AiOutcomes ==
    {Unavailable, BadRequest, Aborted,
     AiText("[{question: Q1, answer: A1}]"),
     AiText("~~~json [{question: Q1, answer: A1}, {question: Q2, answer: A2}] ~~~"),
     AiText("Sorry, I cannot help with that"),
     AiText("[503 candidates applied for this position]")}

\* one pass of the try block (174-175): what it returns or throws
Attempt(o) ==
    IF o.kind = "reject"
    THEN {[kind |-> "throw", isError |-> o.isError, message |-> o.text,
           value |-> <<>>]}
    ELSE cleanAiResponse(o.text)

\* a variant of the test below without the cap on the attempts
ShouldRetryUncapped(error, n) ==
    /\ error.isError
    /\ Includes(error.message, "503")

\* a variant of the test below whose cap is one attempt later
ShouldRetryOnceMore(error, n) ==
    /\ error.isError
    /\ Includes(error.message, "503")
    /\ n < maxAttempts

\* the catch block's test (177-181)
ShouldRetry(error, n) ==
    /\ error.isError
    /\ Includes(error.message, "503")
    /\ n < maxAttempts - 1

\* Values of the form
Undefined == [defined |-> FALSE, value |-> <<>>]
Questions(v) == [defined |-> TRUE, value |-> v]

NoInterview == [present |-> FALSE, id |-> "", resumeUrl |-> ""]
ExistingInterview ==
    [present |-> TRUE, id |-> "interview_1",
     resumeUrl |-> "https://res.cloudinary.com/resume_0"]
UploadedUrl == "https://res.cloudinary.com/resume_1"
ExtractedText == "Five years of backend work"

NoToast == [kind |-> "none", text |-> ""]
Toast(k, t) == [kind |-> k, text |-> t]

\* the Create button is disabled={!isValid || loading} (342); after
\* navigate("/generate") the form is gone
CanSubmit ==
    /\ formStep = "idle"
    /\ ~formLoading
    /\ ~formNavigated

\* top of generateQuestions' while loop with the counter at n (172-174);
\* leaving the loop returns undefined to onSubmit, which then writes
\* (222-242)
LoopTop(n) ==
    /\ attempts' = n
    /\ IF n < maxAttempts
       THEN /\ formStep' = "ai"
            /\ aiRequests' = aiRequests + 1
            /\ generated' = Undefined
            /\ aiReply' \in AiOutcomes
            /\ UNCHANGED writes
       ELSE /\ formStep' = "write"
            /\ generated' = Undefined
            /\ writes' = writes + 1
            /\ UNCHANGED <<aiRequests, aiReply>>

\* a variant of the catch below that shows nothing
CatchSilently(step) ==
    /\ UNCHANGED formToast
    /\ formLoading' = FALSE
    /\ formStep' = "idle"
    /\ failedStep' = step

\* onSubmit's catch and finally (246-251)
Catch(step) ==
    /\ formToast' = Toast("error", "Something went wrong")
    /\ formLoading' = FALSE
    /\ formStep' = "idle"
    /\ failedStep' = step

\* onSubmit up to its first await (197-222)
onSubmit ==
    /\ CanSubmit
    /\ \E file \in {"none", "pdf", "doc"} :
        IF userId = ""
        THEN /\ formToast' = Toast("error", "Login required")
             /\ UNCHANGED <<resume, formLoading, formStep, attempts, resumeUrl,
                            resumeText, generated, storeAtSubmit, failedStep,
                            aiLog, aiReply, uploads, aiRequests, writes,
                            submissions>>
        ELSE /\ submissions < MaxSubmissions
             /\ submissions' = submissions + 1
             /\ resume' = file
             /\ formLoading' = TRUE
             /\ resumeUrl' = initialData.resumeUrl
             /\ resumeText' = ""
             /\ storeAtSubmit' = interviews
             /\ failedStep' = "none"
             /\ aiLog' = <<>>
             /\ IF file # "none"
                THEN /\ formToast' = Toast("info", "Uploading resume...")
                     /\ formStep' = "upload"
                     /\ uploads' = uploads + 1
                     /\ attempts' = 0
                     /\ generated' = Undefined
                     /\ UNCHANGED <<aiRequests, writes, aiReply>>
                ELSE /\ formToast' = Toast("info", "Generating questions...")
                     /\ LoopTop(0)
                     /\ UNCHANGED uploads
    /\ UNCHANGED <<initialData, interviews, formNavigated>>
    /\ UNCHANGED <<flowVars, recVars, envVars, unhandledRejection>>

\* uploadResumeToCloudinary settles (111-128, 213-222)
UploadResolve ==
    /\ formStep = "upload"
    /\ \E ok \in BOOLEAN :
        IF ok
        THEN /\ resumeUrl' = UploadedUrl
             /\ IF resume = "pdf"
                THEN /\ formToast' = Toast("info", "Analyzing resume...")
                     /\ formStep' = "extract"
                     /\ UNCHANGED <<attempts, aiRequests, generated, writes,
                                    aiReply>>
                ELSE /\ formToast' = Toast("info", "Generating questions...")
                     /\ LoopTop(0)
             /\ UNCHANGED <<formLoading, failedStep>>
        ELSE /\ Catch("upload")
             /\ UNCHANGED <<resumeUrl, attempts, aiRequests, generated, writes,
                            aiReply>>
    /\ UNCHANGED <<initialData, resume, resumeText, interviews, formNavigated,
                   storeAtSubmit, aiLog, uploads, submissions>>
    /\ UNCHANGED <<flowVars, recVars, envVars, unhandledRejection>>

\* extractTextFromPDF settles (130-148, 217-222)
ExtractResolve ==
    /\ formStep = "extract"
    /\ \E ok \in BOOLEAN :
        IF ok
        THEN /\ resumeText' = ExtractedText
             /\ formToast' = Toast("info", "Generating questions...")
             /\ LoopTop(0)
             /\ UNCHANGED <<formLoading, failedStep>>
        ELSE /\ Catch("extract")
             /\ UNCHANGED <<resumeText, attempts, aiRequests, generated, writes,
                            aiReply>>
    /\ UNCHANGED <<initialData, resume, resumeUrl, interviews, formNavigated,
                   storeAtSubmit, aiLog, uploads, submissions>>
    /\ UNCHANGED <<flowVars, recVars, envVars, unhandledRejection>>

\* chatSession.sendMessage settles: the rest of the try block and the catch
\* block of generateQuestions (174-188), then onSubmit's write (225-242)
AiResolve ==
    /\ formStep = "ai"
    /\ \E r \in Attempt(aiReply) :
        /\ aiLog' = Append(aiLog, aiReply)
        /\ IF r.kind = "return"
           THEN /\ generated' = Questions(r.value)
                /\ formStep' = "write"
                /\ writes' = writes + 1
                /\ UNCHANGED <<attempts, formToast, formLoading, failedStep>>
           ELSE IF ShouldRetry(r, attempts)
           THEN /\ attempts' = attempts + 1
                /\ formStep' = "backoff"
                /\ UNCHANGED <<generated, writes, formToast, formLoading,
                               failedStep>>
           ELSE /\ Catch("generate")
                /\ UNCHANGED <<attempts, generated, writes>>
    /\ UNCHANGED <<initialData, resume, resumeUrl, resumeText, interviews,
                   formNavigated, storeAtSubmit, aiReply, uploads, aiRequests,
                   submissions>>
    /\ UNCHANGED <<flowVars, recVars, envVars, unhandledRejection>>

\* the 2 s backoff ends (184) and the loop goes round (172)
BackoffDone ==
    /\ formStep = "backoff"
    /\ LoopTop(attempts)
    /\ UNCHANGED <<initialData, resume, formLoading, resumeUrl, resumeText,
                   interviews, formToast, formNavigated, storeAtSubmit,
                   failedStep, aiLog, uploads, submissions>>
    /\ UNCHANGED <<flowVars, recVars, envVars, unhandledRejection>>

\* the record onSubmit writes (227-242); serverTimestamp() is the number of
\* the write
Written ==
    LET stamp == Len(interviews) + submissions
    IN IF initialData.present
       THEN [i \in DOMAIN interviews |->
                IF interviews[i].id = initialData.id
                THEN [interviews[i] EXCEPT !.resumeUrl = resumeUrl,
                                           !.questions = generated,
                                           !.stamp = stamp]
                ELSE interviews[i]]
       ELSE Append(interviews,
                   [id |-> "interview_new", userId |-> userId,
                    resumeUrl |-> resumeUrl, questions |-> generated,
                    stamp |-> stamp])

\* updateDoc / addDoc settles (227-251)
WriteResolve ==
    /\ formStep = "write"
    /\ \E ok \in BOOLEAN :
        IF ok
        THEN /\ interviews' = Written
             /\ formToast' = Toast("success", "Interview saved")
             /\ formNavigated' = TRUE
             /\ formLoading' = FALSE
             /\ formStep' = "idle"
             /\ UNCHANGED failedStep
        ELSE /\ Catch("write")
             /\ UNCHANGED <<interviews, formNavigated>>
    /\ UNCHANGED <<initialData, resume, attempts, resumeUrl, resumeText,
                   generated, storeAtSubmit, aiLog, aiReply, uploads,
                   aiRequests, writes, submissions>>
    /\ UNCHANGED <<flowVars, recVars, envVars, unhandledRejection>>

\* handleDelete up to its await (257-261); confirm() is the candidate's answer
handleDelete ==
    /\ CanSubmit
    /\ \E confirmed \in BOOLEAN :
         formStep' = IF initialData.present /\ confirmed THEN "delete" ELSE "idle"
    /\ UNCHANGED <<initialData, resume, formLoading, attempts, resumeUrl,
                   resumeText, generated, interviews, formToast, formNavigated,
                   storeAtSubmit, failedStep, aiLog, aiReply, uploads,
                   aiRequests, writes, submissions, unhandledRejection>>
    /\ UNCHANGED <<flowVars, recVars, envVars>>

\* deleteDoc settles (261-262): the rejection of an async function that
\* nothing awaits and nothing catches is reported as unhandled
DeleteResolve ==
    /\ formStep = "delete"
    /\ formStep' = "idle"
    /\ \E ok \in BOOLEAN :
        IF ok
        THEN /\ interviews' =
                  SelectSeq(interviews, LAMBDA i : i.id # initialData.id)
             /\ formNavigated' = TRUE
             /\ UNCHANGED unhandledRejection
        ELSE /\ unhandledRejection' = TRUE
             /\ UNCHANGED <<interviews, formNavigated>>
    /\ UNCHANGED <<initialData, resume, formLoading, attempts, resumeUrl,
                   resumeText, generated, formToast, storeAtSubmit, failedStep,
                   aiLog, aiReply, uploads, aiRequests, writes, submissions>>
    /\ UNCHANGED <<flowVars, recVars, envVars>>

----------------------------------------------------------------------------
\* Initial states

\* QuestionSection and RecordAnswer just mounted
InitInterview(lists, ids) ==
    /\ questions \in lists
    /\ isPlaying = FALSE
    /\ activeIndex = 0
    /\ showQuestion = FALSE
    /\ allAnswers = <<>>
    /\ isCrossQuestion = FALSE
    /\ crossQuestionText = ""
    /\ tempMainAnswer = ""
    /\ mounted = TRUE
    /\ navState = NoNav
    /\ utterance = IF speechSupported THEN "pending" ELSE "none"
                                 \* the auto-speak effect ran on mount
    /\ lateEnd = FALSE
    /\ userAnswer = ""
    /\ recAllAnswers = <<>>
    /\ isAiGenerating = FALSE
    /\ aiResult = NoResult
    /\ open = FALSE
    /\ loading = FALSE
    /\ recordingTime = 0
    /\ timerRef = FALSE
    /\ stt = "off"
    /\ results = <<>>
    /\ interimResult = ""
    /\ userId \in ids
    /\ timers = 0
    /\ zombieTimers = 0
    /\ unheard = 0
    /\ saves = <<>>
    /\ evals = <<>>
    /\ pendingSubmits = <<>>
    /\ docs = <<>>
    /\ saveErrorToast = FALSE

\* FormMockInterview just mounted, to create an interview or to edit one
InitFormWith(props) ==
    /\ initialData \in props
    /\ resume = "none"
    /\ formLoading = FALSE
    /\ formStep = "idle"
    /\ attempts = 0
    /\ resumeUrl = ""
    /\ resumeText = ""
    /\ generated = Undefined
    /\ interviews =
          IF initialData.present
          THEN <<[id |-> initialData.id, userId |-> "user_1",
                  resumeUrl |-> initialData.resumeUrl,
                  questions |-> Questions(<<"{question: Q0, answer: A0}">>),
                  stamp |-> 0]>>
          ELSE <<>>
    /\ formToast = NoToast
    /\ formNavigated = FALSE
    /\ storeAtSubmit = interviews
    /\ failedStep = "none"
    /\ aiLog = <<>>
    /\ aiReply = NoReply
    /\ uploads = 0
    /\ aiRequests = 0
    /\ writes = 0
    /\ submissions = 0
    /\ unhandledRejection = FALSE

----------------------------------------------------------------------------
\* The interview of a signed-in candidate: QuestionSection with its recorder,
\* and a recogniser that captures until it is stopped
Init ==
    /\ speechSupported = TRUE
    /\ InitInterview({QuestionList(n) : n \in 1..MaxQuestions}, {"user_1"})
    /\ InitFormWith({NoInterview})

Next ==
    \/ SpeechStart
    \/ SpeechEnd
    \/ LateSpeechEnd
    \/ ReplayClick
    \/ SubmitFire
    \/ SpeechResult
    \/ CaptureStarted
    \/ Tick
    \/ recordUserAnswer
    \/ EvalResolve
    \/ OpenModal
    \/ CloseModal
    \/ saveUserAnswer
    \/ SaveSucceeds
    \/ SaveFails

Spec == Init /\ [][Next]_vars

\* The recorder of the first question (the last one too when there is one
\* question), with a recogniser that may also refuse or lose the capture,
\* and with or without an identity
InitRecorder ==
    /\ speechSupported = TRUE
    /\ InitInterview({QuestionList(n) : n \in 1..MaxQuestions}, {"user_1", ""})
    /\ InitFormWith({NoInterview})

FirstQuestion == activeIndex = 0 /\ ~isCrossQuestion

NextRecorder ==
    \/ FirstQuestion /\ SpeechStart
    \/ FirstQuestion /\ SpeechEnd
    \/ FirstQuestion /\ LateSpeechEnd
    \/ FirstQuestion /\ ReplayClick
    \/ FirstQuestion /\ SubmitFire
    \/ FirstQuestion /\ SpeechResult
    \/ FirstQuestion /\ CaptureStarted
    \/ FirstQuestion /\ CaptureEnded
    \/ FirstQuestion /\ Tick
    \/ FirstQuestion /\ recordUserAnswer
    \/ FirstQuestion /\ EvalResolve
    \/ FirstQuestion /\ OpenModal
    \/ FirstQuestion /\ CloseModal
    \/ FirstQuestion /\ saveUserAnswer
    \/ FirstQuestion /\ SaveSucceeds
    \/ FirstQuestion /\ SaveFails

SpecRecorder == InitRecorder /\ [][NextRecorder]_vars

\* The intake form, with or without an identity
InitForm ==
    /\ speechSupported = TRUE
    /\ InitInterview({QuestionList(1)}, {"user_1", ""})
    /\ InitFormWith({NoInterview, ExistingInterview})

NextForm ==
    \/ onSubmit
    \/ UploadResolve
    \/ ExtractResolve
    \/ AiResolve
    \/ BackoffDone
    \/ WriteResolve

SpecForm == InitForm /\ [][NextForm]_vars

----------------------------------------------------------------------------
\* The same interview in a browser that may lack speech synthesis; the
\* platform delivers the start event of every utterance handed to it and the
\* end event of every utterance it speaks
InitLive ==
    /\ speechSupported \in BOOLEAN
    /\ InitInterview({QuestionList(n) : n \in 1..MaxQuestions}, {"user_1"})
    /\ InitFormWith({NoInterview})

SpecLive ==
    InitLive /\ [][Next]_vars /\ WF_vars(SpeechStart) /\ WF_vars(SpeechEnd)

----------------------------------------------------------------------------
\* The intake form when every request to the AI service settles and every
\* backoff timer fires.  A request settles in every state with
\* formStep = "ai" (Attempt is never empty and AiResolve appends to aiLog), so
\* weak fairness of AiResolve is written out with that enabling condition.
SpecFormLive ==
    /\ InitForm /\ [][NextForm]_vars
    /\ ([]<>(formStep # "ai") \/ []<><<AiResolve>>_vars)
    /\ WF_vars(BackoffDone)

----------------------------------------------------------------------------
\* The intake form with the deletion of the interview it edits
NextFormDelete ==
    \/ onSubmit
    \/ UploadResolve
    \/ ExtractResolve
    \/ AiResolve
    \/ BackoffDone
    \/ WriteResolve
    \/ handleDelete
    \/ DeleteResolve

SpecFormDelete == InitForm /\ [][NextFormDelete]_vars

----------------------------------------------------------------------------
\* The interview of a signed-in candidate who may leave the page at any time
NextTeardown ==
    \/ SpeechStart
    \/ SpeechEnd
    \/ LateSpeechEnd
    \/ ReplayClick
    \/ SubmitFire
    \/ NavigateAway
    \/ SpeechResult
    \/ CaptureStarted
    \/ Tick
    \/ recordUserAnswer
    \/ EvalResolve
    \/ OpenModal
    \/ CloseModal
    \/ saveUserAnswer
    \/ SaveSucceeds
    \/ SaveFails

SpecTeardown == Init /\ [][NextTeardown]_vars

----------------------------------------------------------------------------
\* The cross-question generator on its own: the first main question is
\* shown, a recording of MIN_RECORD_TIME seconds is running, and the
\* recogniser has delivered some answer; the candidate saves it and
\* handleNextQuestion derives the cross-question.

Words == {"I", "am", "The", "from", "go", "caching", "layer", "AWS"}

FragmentWords ==
    <<"I", "am", "building", "a", "scalable", "caching", "layer">>

\* the answers drawn: every sequence of at most MaxWords words, and Fragment
AnswerWords ==
    UNION {[1..n -> Words] : n \in 0..MaxWords} \cup {FragmentWords}

InitCross ==
    /\ questions = QuestionList(MaxQuestions)
    /\ speechSupported = TRUE
    /\ isPlaying = FALSE
    /\ activeIndex = 0
    /\ showQuestion = TRUE
    /\ allAnswers = <<>>
    /\ isCrossQuestion = FALSE
    /\ crossQuestionText = ""
    /\ tempMainAnswer = ""
    /\ mounted = TRUE
    /\ navState = NoNav
    /\ utterance = "none"
    /\ lateEnd = FALSE
    /\ \E ws \in AnswerWords :
          results = IF ws = <<>> THEN <<>> ELSE <<Join(ws, " ")>>
    /\ interimResult = ""
    /\ userAnswer = CombineSpeech(results, interimResult)
    /\ recAllAnswers = <<>>
    /\ isAiGenerating = FALSE
    /\ aiResult = NoResult
    /\ open = FALSE
    /\ loading = FALSE
    /\ recordingTime = MIN_RECORD_TIME
    /\ timerRef = TRUE
    /\ stt = "on"
    /\ userId = "user_1"
    /\ timers = 1
    /\ zombieTimers = 0
    /\ unheard = 0
    /\ saves = <<>>
    /\ evals = <<>>
    /\ pendingSubmits = <<>>
    /\ docs = <<>>
    /\ saveErrorToast = FALSE
    /\ InitFormWith({NoInterview})

NextCross ==
    \/ OpenModal
    \/ saveUserAnswer
    \/ SaveSucceeds
    \/ SubmitFire
    \/ SpeechStart
    \/ SpeechEnd

SpecCross == InitCross /\ [][NextCross]_vars

----------------------------------------------------------------------------
\* The response cleaner on its own: a submission without a resume awaits the
\* reply to its first request, and the reply is some text

\* what a reply may put before the first "[" and after the last "]"
Prefixes == {"", "~~~json ", "Here are the questions: ", "1] ", "~~~json\n"}
Suffixes == {"", " ~~~", " Good luck!", " [end", "\n~~~"}

\* bracketed texts: arrays that parse, and texts that do not
Bodies ==
    {"[{question: Q1, answer: A1}]",
     "[{question: Q1, answer: A1}, {question: Q2, answer: A2}]",
     "[]",
     "[503 candidates applied for this position]",
     "[{question: Q1, answer: A1}] or [{question: Q2, answer: A2}]"}

\* texts in which no "[" is followed by a "]"
Unbracketed ==
    {"", "Sorry, I cannot help with that", "[", "]", "] [",
     "{question: Q1, answer: A1}", "question 1] done", "[{question: Q1"}

AiTexts ==
    {pre \o body \o post : pre \in Prefixes, body \in Bodies, post \in Suffixes}
        \cup Unbracketed

InitClean ==
    /\ speechSupported = TRUE
    /\ InitInterview({QuestionList(1)}, {"user_1"})
    /\ initialData = NoInterview
    /\ resume = "none"
    /\ formLoading = TRUE
    /\ formStep = "ai"
    /\ attempts = 0
    /\ resumeUrl = ""
    /\ resumeText = ""
    /\ generated = Undefined
    /\ interviews = <<>>
    /\ formToast = Toast("info", "Generating questions...")
    /\ formNavigated = FALSE
    /\ storeAtSubmit = <<>>
    /\ failedStep = "none"
    /\ aiLog = <<>>
    /\ aiReply \in {AiText(t) : t \in AiTexts}
    /\ uploads = 0
    /\ aiRequests = 1
    /\ writes = 0
    /\ submissions = 1
    /\ unhandledRejection = FALSE

NextClean ==
    \/ AiResolve
    \/ BackoffDone
    \/ WriteResolve

SpecClean == InitClean /\ [][NextClean]_vars

----------------------------------------------------------------------------
\* Properties of the recorder's save

\* C1: no document of the "userAnswers" collection carries a candidate
\* transcript shorter than 30 characters, whatever the recorded duration.
\* (Does not hold: saveUserAnswer and the Save Result button test the
\* duration only.)
PersistedTranscriptLongEnough ==
    \A i \in DOMAIN docs : Len(docs[i].user_ans) >= MIN_ANSWER_LENGTH

\* C2: a document is persisted only for a recording whose speech capture was
\* active for at least 30 seconds, whatever the transcript length.
\* (Does not hold: recordingTime counts the seconds of every live interval,
\* with the capture active or not.)
PersistedCaptureLongEnough ==
    [][docs' # docs =>
          saves # <<>> /\ Head(saves).heard >= MIN_RECORD_TIME]_vars

\* C7: without an identity no action that would persist a record reaches the
\* network: no upload, no AI request and no write by the form, no addDoc by
\* the recorder.
\* (Does not hold for the recorder: saveUserAnswer never looks at userId.)
NoIdentityNoNetwork ==
    userId = "" =>
        /\ uploads = 0 /\ aiRequests = 0 /\ writes = 0
        /\ saves = <<>> /\ docs = <<>>

----------------------------------------------------------------------------
\* Properties of the interview flow

\* what one step may do to the position of the flow
FlowStep ==
    /\ (isCrossQuestion' # isCrossQuestion \/ activeIndex' # activeIndex
           \/ allAnswers' # allAnswers \/ navState' # navState)
        => pendingSubmits # <<>> /\ pendingSubmits' = Tail(pendingSubmits)
    /\ (~isCrossQuestion /\ isCrossQuestion')
        => activeIndex' = activeIndex /\ allAnswers' = allAnswers
           /\ navState' = navState
    /\ (isCrossQuestion /\ ~isCrossQuestion')
        => /\ Len(allAnswers') = Len(allAnswers) + 1
           /\ \/ /\ activeIndex < Len(questions) - 1
                 /\ activeIndex' = activeIndex + 1
                 /\ navState' = navState
              \/ /\ activeIndex = Len(questions) - 1
                 /\ activeIndex' = activeIndex
                 /\ navState'.done
    /\ activeIndex' # activeIndex => isCrossQuestion /\ ~isCrossQuestion'
    /\ allAnswers' # allAnswers => isCrossQuestion /\ ~isCrossQuestion'
    /\ navState' # navState
        => /\ ~navState.done
           /\ isCrossQuestion /\ activeIndex = Len(questions) - 1
           /\ navState'.answers = allAnswers'
           /\ Len(navState'.answers) = Len(questions)

\* where the flow stands: question activeIndex of 0..N-1, with the answers
\* of the questions before it, in the order of the list
FlowPosition ==
    /\ activeIndex < Len(questions)
    /\ Len(allAnswers) = activeIndex + (IF navState.done THEN 1 ELSE 0)
    /\ \A k \in DOMAIN allAnswers :
          allAnswers[k].question = questions[k].question
    /\ navState.done => ~mounted /\ Len(navState.answers) = Len(questions)

\* C3: for a list of N >= 1 questions the flow visits the indices 0..N-1 in
\* order, each main question followed by exactly one cross-question (the
\* index moves on, by one, only when a cross-answer is submitted; a main
\* answer only opens the cross-question of the same index), and it navigates
\* to the feedback view only when the cross-answer of index N-1 is submitted,
\* with an answer list of length exactly N.
FlowInOrder == []FlowPosition /\ [][FlowStep]_vars

\* the feedback view was reached through a list of more than one question
FlowFinished ==
    /\ navState.done
    /\ Len(questions) > 1
    /\ Len(navState.answers) = Len(questions)

----------------------------------------------------------------------------
\* Properties of the intake form

\* the AI requests of the running submission: the answered and the pending
RequestsOfSubmission == Len(aiLog) + (IF formStep = "ai" THEN 1 ELSE 0)

\* the i-th answer of the running submission is a text cleanAiResponse parses
Parses(i) ==
    /\ aiLog[i].kind = "text"
    /\ \E r \in cleanAiResponse(aiLog[i].text) : r.kind = "return"

ParsedValue(i) ==
    (CHOOSE r \in cleanAiResponse(aiLog[i].text) : r.kind = "return").value

\* C4: generateQuestions issues at most 3 AI requests per submission; when
\* the first two are answered transient-unavailable and the third with a
\* text that parses, it returns the parsed third text and onSubmit goes on to
\* write with no error shown; when all three are answered
\* transient-unavailable the error reaches onSubmit's catch.
RetryPolicy ==
    /\ RequestsOfSubmission <= maxAttempts
    /\ aiRequests <= maxAttempts * submissions
    /\ (Len(aiLog) = 3 /\ aiLog[1] = Unavailable /\ aiLog[2] = Unavailable
          /\ Parses(3))
        => /\ generated = Questions(ParsedValue(3))
           /\ failedStep # "generate"
           /\ formStep = "write" \/ writes > 0
    /\ (Len(aiLog) = 3 /\ \A i \in 1..3 : aiLog[i] = Unavailable)
        => /\ failedStep = "generate"
           /\ formStep = "idle"
           /\ ~generated.defined
           /\ formToast = Toast("error", "Something went wrong")
           /\ interviews = storeAtSubmit

\* the third request succeeded after two transient failures
ThirdAttemptReturned ==
    /\ Len(aiLog) = 3
    /\ aiLog[1] = Unavailable /\ aiLog[2] = Unavailable
    /\ Parses(3)
    /\ formStep = "write"
    /\ generated.defined /\ Len(generated.value) = 2

\* C5: in generateQuestions a failure that is not a transient-unavailable
\* response, a failure to parse the AI text included, propagates at once:
\* no backoff is taken after it and no further AI request follows it.
\* (Does not hold: the catch block takes any Error whose message holds "503"
\* for a transient one, and the SyntaxError of JSON.parse may quote the text.)
OnlyUnavailableRetried ==
    /\ \A i \in 1..(Len(aiLog) - 1) : aiLog[i] = Unavailable
    /\ formStep = "backoff" => aiLog[Len(aiLog)] = Unavailable

\* every step before the write succeeded in the running submission
StepsSucceeded ==
    /\ failedStep = "none"
    /\ resume # "none" => resumeUrl = UploadedUrl
    /\ resume = "pdf" => resumeText = ExtractedText
    /\ aiLog # <<>>
    /\ Parses(Len(aiLog))
    /\ generated = Questions(ParsedValue(Len(aiLog)))

\* C6: when a step of the form's submit fails (upload, text extraction,
\* question generation after its retries, parsing of the response) no
\* interview record is created or updated and an error toast is shown; a
\* write is issued, and a record changes, only after every step before it
\* succeeded.
SubmitAllOrNothing ==
    /\ failedStep # "none"
        => /\ interviews = storeAtSubmit
           /\ formToast = Toast("error", "Something went wrong")
           /\ formStep = "idle" /\ ~formLoading /\ ~formNavigated
    /\ (formStep = "write" \/ interviews # storeAtSubmit) => StepsSucceeded

\* generation failed after the upload and the extraction succeeded, on the
\* form that edits a stored interview
GenerationFailedLate ==
    /\ failedStep = "generate"
    /\ initialData.present
    /\ resume = "pdf" /\ resumeText = ExtractedText
    /\ interviews = storeAtSubmit

----------------------------------------------------------------------------
\* Properties of the recorder's evaluation and save

\* what one step may do to the modal, the calls in flight and the collection
SaveGateStep ==
    /\ (~open /\ open')
        => RecorderMounted /\ ~SaveDisabled
    /\ Len(saves') > Len(saves)
        => /\ RecorderMounted /\ open /\ ~loading
           /\ saves' = Append(saves, saves'[Len(saves')])
           /\ isLastQuestion
               => /\ aiResult.present
                  /\ saves'[Len(saves')].doc.overall_feedback = aiResult.feedback
                  /\ saves'[Len(saves')].doc.overall_rating = aiResult.ratings
    /\ docs' # docs
        => /\ saves # <<>> /\ saves' = Tail(saves)
           /\ docs' = Append(docs, Head(saves).doc)

\* C8: on the final question index addDoc is called, and so a document
\* persisted, only in a state where an overall result (rating and feedback)
\* exists, and on every index only from the open save modal, which opens
\* only by the enabled Save Result button; the collection grows only by a
\* document a confirmed save carried.
SaveGated == [][SaveGateStep]_vars

\* the answers of a one-question interview were persisted with the rating
\* of the AI service
PersistedWithResult ==
    /\ Len(questions) = 1
    /\ Len(docs) = 2
    /\ \A i \in DOMAIN docs :
          docs[i].overall_feedback = "Good" /\ docs[i].overall_rating = 7

\* the evaluation of the mounted recorder settles with a failure
EvalFailureStep ==
    (evals # <<>> /\ evals' = Tail(evals) /\ Head(evals).alive)
    => \A outcome \in EvalResponses \cup {"error"} :
        (EvalFailed(outcome) /\ EvalSettle(outcome))
        => /\ isLastQuestion
           /\ aiResult'.present
           /\ aiResult'.ratings = 0
           /\ aiResult'.feedback = "Unable to generate feedback"
           /\ ~isAiGenerating'
           /\ SaveDisabled' = (recordingTime < MIN_RECORD_TIME)
           /\ recordingTime >= MIN_RECORD_TIME => ~SaveDisabled'

\* C9: when the evaluation request of the final question is rejected or
\* answers with a text that does not parse, the recorder that made it gets
\* the overall result of rating 0 with the generic feedback, its generating
\* flag is cleared, and Save Result is no longer held back for want of a
\* result: it is enabled for the recording that was evaluated.
EvalFailureFallsBack == [][EvalFailureStep]_vars

\* the feedback view was reached with the fallback result persisted
FeedbackAfterFailedEval ==
    /\ navState.done
    /\ docs # <<>>
    /\ docs[Len(docs)].overall_rating = 0
    /\ docs[Len(docs)].overall_feedback = "Unable to generate feedback"

\* a save in flight settles without a document persisted
SaveFailureStep ==
    (saves # <<>> /\ saves' = Tail(saves) /\ docs' = docs)
    => /\ UNCHANGED <<userAnswer, recordingTime, results, interimResult>>
       /\ UNCHANGED pendingSubmits
       /\ UNCHANGED <<activeIndex, isCrossQuestion, crossQuestionText,
                      tempMainAnswer, allAnswers, showQuestion, navState>>
       /\ saveErrorToast'
       /\ Head(saves).alive
           => /\ RecorderMounted' /\ open' /\ ~loading'
              /\ ~SaveRejected'
              /\ Len(saves') < MaxInFlight

\* C10: when addDoc fails the transcript and the elapsed-time counter stay
\* as they were, onSubmit is not scheduled, the flow's index and sub-state
\* do not change, and the save can be confirmed again (the modal is still
\* open, loading is cleared, the duration check still passes).
SaveFailureKeepsAnswer == [][SaveFailureStep]_vars

\* a failed save of a spoken answer, the modal still open for the retry
RetryOffered ==
    /\ saveErrorToast
    /\ RecorderMounted /\ open /\ ~loading
    /\ userAnswer = Fragment
    /\ recordingTime >= MIN_RECORD_TIME

----------------------------------------------------------------------------
\* Properties of the recording timer

\* C11: every interval a recorder started is cleared when the recording
\* stops or the recorder unmounts: at most one interval is live at a time,
\* none is live while the capture is off, and none outlives its recorder.
\* (Does not hold: the start branch of recordUserAnswer overwrites
\* timerRef.current without clearing it, saveUserAnswer and the recogniser
\* stop the capture without clearing the interval, and the unmount cleanup
\* clears timerRef.current only.)
TimerOwned ==
    /\ timers <= 1
    /\ stt = "off" => timers = 0
    /\ zombieTimers = 0

----------------------------------------------------------------------------
\* Properties of the cross-question generator

\* the word as the cross-question shows it: first letter upper case, the
\* rest lower case
Capitalized(w) ==
    UpperChar(SubSeq(w, 1, 1)) \o ToLowerCase(SubSeq(w, 2, Len(w)))

\* a word the generator may ask about
IsKeyword(w) == Len(w) > 2 /\ ToLowerCase(w) \notin stopWords

ExpectedCrossQuestion(ws) ==
    LET at == {i \in 1..Len(ws) : IsKeyword(ws[i])}
    IN  IF at = {} THEN FallbackCrossQuestion
        ELSE "What is "
               \o Capitalized(ws[CHOOSE i \in at : \A j \in at : j <= i])
               \o "?"

\* C12: the cross-question is a function of the answer text alone: for an
\* answer made of words it is "What is {Word}?" with Word the capitalized
\* last word longer than 2 characters that is no stop-word, and the
\* fallback prompt when the answer is empty or has no such word;
\* "I am building a scalable caching layer" gives "What is Layer?".
CrossQuestionFromLastKeyword ==
    isCrossQuestion =>
        /\ \A ws \in AnswerWords :
              tempMainAnswer = Join(ws, " ")
                  => crossQuestionText = ExpectedCrossQuestion(ws)
        /\ tempMainAnswer = "" => crossQuestionText = FallbackCrossQuestion
        /\ tempMainAnswer = Fragment => crossQuestionText = "What is Layer?"

\* the cross-question of an answer whose last keyword is neither its last
\* word nor lower case
CrossQuestionAsked ==
    /\ isCrossQuestion
    /\ tempMainAnswer = "caching AWS from"
    /\ crossQuestionText = "What is Aws?"

----------------------------------------------------------------------------
\* Properties of the response cleaner

\* what generateQuestions hands to onSubmit for a text whose part from the
\* first "[" to the last "]" is body
ParsedAs(body) ==
    IF JsonParse(body).ok THEN Questions(JsonParse(body).value) ELSE Undefined

\* C13: cleanAiResponse parses exactly the part of the AI text from its first
\* "[" to its last "]": whatever stands before the first "[" or after the
\* last "]" does not change the result, and a text in which no "[" is
\* followed by a "]" gives a parse error, never a question list.
CleanParsesBracketedPart ==
    (aiLog # <<>> /\ aiLog[Len(aiLog)].kind = "text") =>
        LET text == aiLog[Len(aiLog)].text
        IN  /\ \A pre \in Prefixes, body \in Bodies, post \in Suffixes :
                  text = pre \o body \o post => generated = ParsedAs(body)
            /\ text \in Unbracketed =>
                  /\ generated = Undefined
                  /\ writes = 0
                  /\ formStep \in {"ai", "backoff"} \/ failedStep = "generate"

\* a fenced reply with a closing remark gave the two questions inside it
FencedReplyParsed ==
    /\ aiLog = <<AiText("~~~json [{question: Q1, answer: A1}, {question: Q2, answer: A2}] ~~~")>>
    /\ generated = Questions(<<"{question: Q1, answer: A1}",
                               "{question: Q2, answer: A2}">>)
    /\ formStep = "write"

----------------------------------------------------------------------------
\* Properties of the teardown

\* C14: once QuestionSection is torn down, by the navigation to the feedback
\* view or by leaving the page, no utterance of it is queued or speaking,
\* and nothing that happens later (the delayed submit of a save, a late
\* speech callback) starts one.
SilentAfterTeardown == ~mounted => utterance = "none"

\* the candidate left while the save of the first answer was in flight; the
\* save resolved and its delayed submit fired on the unmounted component
SubmitFiredAfterTeardown ==
    /\ ~mounted /\ ~navState.done
    /\ activeIndex = 0 /\ ~isCrossQuestion
    /\ Len(docs) = 1
    /\ saves = <<>> /\ pendingSubmits = <<>>

----------------------------------------------------------------------------
\* Properties of the error handling

----------------------------------------------------------------------------
\* Properties of the answer documents

\* C16: over one attempt a document of the "userAnswers" collection is
\* created once per question: when the flow has reached the feedback view
\* for N main questions there are exactly N documents, one for each main
\* question.
\* (Does not hold: the recorder shown for the cross-question saves a
\* document of its own.)
OneDocumentPerQuestion ==
    navState.done =>
        /\ Len(docs) = Len(questions)
        /\ \A i \in 1..Len(questions) :
              Cardinality({k \in 1..Len(docs) :
                              docs[k].question = questions[i].question}) = 1

----------------------------------------------------------------------------
\* Properties of the speech

\* C17: while a question or cross-question is being read aloud, that is from
\* the moment its utterance is handed to the synthesiser until the utterance
\* ends or is cancelled, the answer section with its recorder is hidden.
\* (Does not hold: Replay hands over an utterance and leaves the answer
\* section shown until speech.onstart, and the end event of a cancelled
\* utterance shows it while the next utterance is spoken.)
AnswerHiddenWhileSpoken ==
    (mounted /\ utterance \in {"pending", "speaking"}) => ~showQuestion

\* the flow enters a question or the cross-question of a question
EnterQuestion ==
    /\ mounted'
    /\ <<activeIndex', isCrossQuestion'>> # <<activeIndex, isCrossQuestion>>

\* C18: whenever the flow enters a question or a cross-question, the question
\* is handed to the synthesiser, and with the speech events delivered the
\* answer section is shown for it, whatever the candidate does or does not
\* do: the flow never rests with the answer section hidden, and it leaves no
\* question before an answer to it has been saved.
\* (Does not hold: where window.speechSynthesis is missing, speakQuestion
\* returns at once and nothing ever sets showQuestion.)
AnswerSectionReached ==
    /\ [][EnterQuestion => (utterance' = "pending" /\ ~showQuestion')]_vars
    /\ (mounted /\ ~showQuestion) ~> (showQuestion \/ ~mounted)
    /\ [][EnterQuestion =>
            \E k \in 1..Len(docs) : docs[k].question = currentQuestion.question]_vars

----------------------------------------------------------------------------
\* Properties of the evaluation

AtFinalIndex == activeIndex + 1 = Len(questions)

Unrated(d) == d.overall_rating = 0 /\ d.overall_feedback = ""

\* C19: an evaluation is requested only by the stop of a recording that
\* passed the duration check and the transcript check while the index is the
\* final one; so an overall result exists at the final index only, and every
\* document saved at an index before the final one has rating 0 and empty
\* feedback.
EvalOnlyAtFinalIndex ==
    /\ [][Len(evals') > Len(evals) =>
            /\ stt = "on" /\ stt' = "off"
            /\ recordingTime >= MIN_RECORD_TIME
            /\ Len(Trim(userAnswer)) >= MIN_ANSWER_LENGTH
            /\ AtFinalIndex]_vars
    /\ [](aiResult.present => AtFinalIndex)
    /\ [][(Len(saves') > Len(saves) /\ ~AtFinalIndex) =>
            Unrated(saves'[Len(saves')].doc)]_vars
    /\ [](\A k \in 1..Len(docs) : \A i \in 1..(Len(questions) - 1) :
            docs[k].question = questions[i].question => Unrated(docs[k]))

\* the answer to the first of two questions is stored unrated, and the
\* evaluation requested at the second question is in flight
EvalRequestedAtFinalIndex ==
    /\ Len(questions) = 2 /\ activeIndex = 1
    /\ docs # <<>> /\ docs[1].question = questions[1].question
    /\ Unrated(docs[1])
    /\ evals # <<>> /\ Head(evals).alive


\* C20: the evaluation requested at the final question pairs every question
\* with the candidate's answer to it: the list of answers sent is as long as
\* the list of questions, and at the place of every earlier question it
\* holds the answer stored for that question.
\* (Does not hold: the list is the allAnswers state of the recorder, which
\* starts empty at every mount of the recorder and gains one entry at every
\* valid stop.)
EvalPairsAnswers ==
    \A k \in 1..Len(evals) :
        LET e == evals[k]
        IN  /\ Len(e.answers) = Len(e.questions)
            /\ \A i \in 1..(Len(e.questions) - 1) :
                  \E d \in 1..Len(docs) :
                      /\ docs[d].question = e.questions[i].question
                      /\ docs[d].user_ans = e.answers[i]

----------------------------------------------------------------------------
\* Properties of the submit callback

\* submissions the flow has taken: two for every question behind it, one more
\* in the cross-question sub-state
SubmitsTaken ==
    IF navState.done THEN 2 * Len(questions)
    ELSE 2 * activeIndex + (IF isCrossQuestion THEN 1 ELSE 0)

\* the document whose save scheduled the j-th pending submit
DocOfPending(j) == docs[Len(docs) - Len(pendingSubmits) + j]

\* C21: onSubmit is called only after a document of the answer was stored,
\* once for every stored document, and with the transcript written to that
\* document; the flow never advances without a stored document before it.
SubmitFollowsSave ==
    /\ [](Len(docs) = Len(pendingSubmits) + SubmitsTaken)
    /\ [](\A j \in 1..Len(pendingSubmits) :
             pendingSubmits[j].answer = DocOfPending(j).user_ans)
    /\ [][Len(pendingSubmits') > Len(pendingSubmits) =>
            /\ saves # <<>>
            /\ docs' = Append(docs, Head(saves).doc)
            /\ pendingSubmits'[Len(pendingSubmits')].answer
                  = Head(saves).doc.user_ans]_vars
    /\ [][SubmitsTaken' # SubmitsTaken =>
            /\ pendingSubmits # <<>>
            /\ pendingSubmits' = Tail(pendingSubmits)
            /\ SubmitsTaken' = SubmitsTaken + 1
            /\ isCrossQuestion' => tempMainAnswer' = DocOfPending(1).user_ans]_vars

\* the main answer just stored reached the flow: the cross-question is
\* entered with the transcript of the only document
SubmitDelivered ==
    /\ isCrossQuestion /\ activeIndex = 0
    /\ Len(docs) = 1 /\ pendingSubmits = <<>>
    /\ docs[1].user_ans = Fragment
    /\ tempMainAnswer = Fragment

----------------------------------------------------------------------------
\* Properties of the accumulated answers

\* a main answer is submitted: the flow enters the cross-question
MainAnswerSubmitted == ~isCrossQuestion /\ isCrossQuestion'

\* C22: until the flow navigates to the feedback view, the accumulated list
\* holds one entry for every question before the current index, the k-th
\* with the text and the reference answer of question k; the submission of a
\* main answer changes neither the index nor the list, it sets the
\* cross-question sub-state, the cross-question and the stored main answer.
AnswersFollowIndex ==
    /\ [](~navState.done =>
            /\ Len(allAnswers) = activeIndex
            /\ \A k \in 1..Len(allAnswers) :
                  /\ allAnswers[k].question = questions[k].question
                  /\ allAnswers[k].correct = questions[k].answer)
    /\ [][MainAnswerSubmitted =>
            /\ activeIndex' = activeIndex
            /\ allAnswers' = allAnswers
            /\ navState' = navState
            /\ pendingSubmits # <<>>
            /\ tempMainAnswer' = Head(pendingSubmits).answer
            /\ crossQuestionText' # ""]_vars

\* the main answer to the second of two questions was submitted: one entry,
\* of the first question, is accumulated
SecondMainAnswerSubmitted ==
    /\ Len(questions) = 2 /\ activeIndex = 1 /\ isCrossQuestion
    /\ ~navState.done
    /\ Len(allAnswers) = 1
    /\ allAnswers[1].question = "Question 1"
    /\ allAnswers[1].correct = "Reference 1"

----------------------------------------------------------------------------
\* Properties of the generation loop

Generating == formStep \in {"ai", "backoff"}

\* C23: whatever the AI service answers, generateQuestions ends after at
\* most 3 requests, with a parsed list or with a thrown error: its loop is
\* never left by its condition, so no interview is written with its
\* question list missing.
GenerationEnds ==
    /\ [](Len(aiLog) + (IF formStep = "ai" THEN 1 ELSE 0) <= maxAttempts)
    /\ [](attempts < maxAttempts)
    /\ [](formStep = "ai" => Attempt(aiReply) # {})
    /\ Generating ~> ~Generating
    /\ [][(Generating /\ ~Generating') =>
            \/ formStep' = "write" /\ generated'.defined
            \/ formStep' = "idle" /\ failedStep' = "generate"
                 /\ formToast'.kind = "error" /\ interviews' = interviews]_vars
    /\ [](formStep = "write" => generated.defined)
    /\ [](\A i \in 1..Len(interviews) : interviews[i].questions.defined)

\* the service was busy three times: the third failure was thrown
ThirdAttemptThrown ==
    /\ Len(aiLog) = 3 /\ \A i \in 1..3 : aiLog[i] = Unavailable
    /\ attempts = 2
    /\ formStep = "idle" /\ failedStep = "generate"
    /\ interviews = storeAtSubmit

====
